---- MODULE Spec2Model ----
(***************************************************************************)
(* Model of src/src/timerfd.c (LuaSocket timerfd object).                  *)
(*                                                                         *)
(* The Lua side holds at most NumHandles userdata objects (t_unix reused   *)
(* as the timer object).  Each owns a descriptor `sock`.  The kernel side  *)
(* is the descriptor table with one timerfd per open descriptor, and the   *)
(* monotonic clock.  Times are struct timespec records; the double         *)
(* arguments of create/settimeout are given in microseconds, so that       *)
(* `ms = sec * 1000` (double -> uint64_t, truncating) is  us \div 1000.    *)
(***************************************************************************)
EXTENDS Integers, Sequences, FiniteSets, TLC

\* ---- bounds of the model
NumHandles == 2
MaxSec     == 3
MaxEintr   == 1

\* ---- program constants
SOCKET_INVALID == -1
IO_DONE        == 0
IO_CLOSED      == -2
EINTR          == 4
EAGAIN         == 11
EMFILE         == 24
NSEC_PER_SEC   == 1000000000
NSEC_PER_MSEC  == 1000000
MSEC_PER_SEC   == 1000
SIZEOF_V       == 8
FIRST_FD       == 3

Handles == 1..NumHandles
FdNums  == FIRST_FD..(FIRST_FD + NumHandles - 1)

\* ---- inputs
\* delays and intervals handed in by the Lua caller, in microseconds
DelayUs    == {0, 500, 1000, 1500000}
IntervalUs == {0, 500, 1000}
\* Lua argument lists after the object: (delay) or (delay, interval)
ArgLists   == {<<d>> : d \in DelayUs} \cup {<<d, i>> : d \in DelayUs, i \in IntervalUs}
\* create also accepts a non-positive delay without touching the kernel timer
CreateArgs == ArgLists \cup {<<-1000>>, <<-1000, 1000>>}
\* sizes asked of tfd_read, and what the caller's `got` slot holds on entry
ReadCounts == {0, 3, 8}
GotGarbage == {0, 5}
\* what freshly allocated userdata memory may hold in its sock field
SockGarbage == {SOCKET_INVALID, FIRST_FD}
\* clock at start (nanoseconds of second 1), and how far one Tick advances it
InitNsec == {750000001}
TickMs   == MSEC_PER_SEC \div 2

VARIABLES now, un, reach, freed, tfd, kcnt, rd, ret, lastSet

vars == <<now, un, reach, freed, tfd, kcnt, rd, ret, lastSet>>

\* ---- struct timespec
TS(s, n) == [tv_sec |-> s, tv_nsec |-> n]
ZeroTS   == TS(0, 0)
TsLe(a, b) == \/ a.tv_sec < b.tv_sec
              \/ a.tv_sec = b.tv_sec /\ a.tv_nsec <= b.tv_nsec
\* floor((a - b) / 1ms), without forming nanosecond totals
DiffMs(a, b) == (a.tv_sec - b.tv_sec) * MSEC_PER_SEC
                + ((a.tv_nsec - b.tv_nsec) \div NSEC_PER_MSEC)
\* t + ms milliseconds, for t normalised
AddMs(t, ms) ==
    LET n == t.tv_nsec + (ms % MSEC_PER_SEC) * NSEC_PER_MSEC
        s == t.tv_sec + (ms \div MSEC_PER_SEC)
    IN  IF n >= NSEC_PER_SEC THEN TS(s + 1, n - NSEC_PER_SEC) ELSE TS(s, n)

\* ---- the kernel's timerfd objects, one per descriptor number
\* `ticks` is the expiration counter a read returns and resets; `fired` counts
\* the expirations since the timer was last programmed (never reset by a read);
\* `taken` sums the counter values read(2) has delivered since then
ClosedTfd == [open |-> FALSE, armed |-> FALSE, value |-> ZeroTS,
              interval |-> ZeroTS, ticks |-> 0, fired |-> 0, taken |-> 0]
FreshTfd  == [ClosedTfd EXCEPT !.open = TRUE]
IsOpen(fd) == fd \in FdNums /\ tfd[fd].open

\* timerfd_create(CLOCK_MONOTONIC, TFD_NONBLOCK | TFD_CLOEXEC): the lowest free
\* descriptor, or -1 (errno EMFILE and the like) when the kernel refuses
LowestFree == CHOOSE fd \in FdNums : ~tfd[fd].open /\ \A g \in FdNums : g < fd => tfd[g].open
timerfd_create_results == {-1} \cup (IF \E fd \in FdNums : ~tfd[fd].open THEN {LowestFree} ELSE {})

\* timerfd_settime(fd, TFD_TIMER_ABSTIME, nv, NULL) on the descriptor table t:
\* EBADF/EINVAL leave the timer alone; a zero it_value disarms; otherwise the
\* timer is programmed with the absolute deadline; the pending count restarts.
ValidTS(t) == t.tv_sec >= 0 /\ t.tv_nsec >= 0 /\ t.tv_nsec < NSEC_PER_SEC
timerfd_settime(t, fd, nv) ==
    IF ~(fd \in FdNums /\ t[fd].open) THEN t
    ELSE IF ~(ValidTS(nv.it_value) /\ ValidTS(nv.it_interval)) THEN t
    ELSE [t EXCEPT ![fd] = [open |-> TRUE,
                            armed |-> nv.it_value # ZeroTS,
                            value |-> nv.it_value,
                            interval |-> IF nv.it_value # ZeroTS THEN nv.it_interval ELSE ZeroTS,
                            ticks |-> 0, fired |-> 0, taken |-> 0]]

\* ---- tfd_set_timeout: the itimerspec it hands to timerfd_settime
\* ms = sec * 1000, a double converted to uint64_t (truncation); the argument
\* is in microseconds and non-negative
MsOf(us) == us \div MSEC_PER_SEC

\* while (new_value.it_value.tv_nsec >= 1000000000) { -= 1000000000; tv_sec += 1 }
\* the deadline left as computed, without the carry loop
NormalizeValue_none(nv) == nv
RECURSIVE NormalizeValue(_)
NormalizeValue(nv) ==
    IF nv.it_value.tv_nsec >= NSEC_PER_SEC
    THEN NormalizeValue([nv EXCEPT !.it_value =
                            TS(nv.it_value.tv_sec + 1, nv.it_value.tv_nsec - NSEC_PER_SEC)])
    ELSE nv

\* while (new_value.it_interval.tv_nsec >= 1000000000) {
\*     it_interval.tv_nsec -= 1000000000; it_value.tv_sec += 1 }
\* `loops` counts the iterations
RECURSIVE NormalizeInterval(_)
NormalizeInterval(nv) ==
    IF nv.it_interval.tv_nsec >= NSEC_PER_SEC
    THEN NormalizeInterval([nv EXCEPT
             !.it_interval = TS(nv.it_interval.tv_sec, nv.it_interval.tv_nsec - NSEC_PER_SEC),
             !.it_value    = TS(nv.it_value.tv_sec + 1, nv.it_value.tv_nsec),
             !.loops       = nv.loops + 1])
    ELSE nv

DeadlineOf(t, sec) ==
    LET ms == MsOf(sec)
    IN  TS(t.tv_sec + (ms \div MSEC_PER_SEC),
           t.tv_nsec + (ms % MSEC_PER_SEC) * NSEC_PER_MSEC)

\* the interval never stored
IntervalOf_none(nv, eps) == nv
\* the interval's nanoseconds taken from all of ms, not from ms % 1000
IntervalOf_noMod(nv, eps) ==
    LET ms == MsOf(eps)
    IN  IF ms > 0
        THEN NormalizeInterval([nv EXCEPT !.it_interval =
                 TS(ms \div MSEC_PER_SEC, ms * NSEC_PER_MSEC)])
        ELSE nv
IntervalOf(nv, eps) ==
    LET ms == MsOf(eps)
    IN  IF ms > 0
        THEN NormalizeInterval([nv EXCEPT !.it_interval =
                 TS(ms \div MSEC_PER_SEC, (ms % MSEC_PER_SEC) * NSEC_PER_MSEC)])
        ELSE nv

\* the interval taken from the delay instead of from eps
NewValue_delayAsInterval(t, sec, eps) ==
    LET zero == [it_value |-> ZeroTS, it_interval |-> ZeroTS, loops |-> 0]
        v1   == NormalizeValue([zero EXCEPT !.it_value = DeadlineOf(t, sec)])
    IN  IntervalOf(v1, sec)
\* new_value as computed from the clock reading t, the delay sec and the interval eps
NewValue(t, sec, eps) ==
    LET zero == [it_value |-> ZeroTS, it_interval |-> ZeroTS, loops |-> 0]
        v1   == NormalizeValue([zero EXCEPT !.it_value = DeadlineOf(t, sec)])
    IN  IntervalOf(v1, eps)

\* tfd_set_timeout(fd, sec, eps): the descriptor table afterwards
tfd_set_timeout(t, fd, sec, eps) == timerfd_settime(t, fd, NewValue(now, sec, eps))
\* and the record of the call
\* and the record of the call: who called (by), with how many Lua arguments
\* after the object (nargs), the clock reading (at), the arguments and new_value
SetRecord(by, nargs, sec, eps) ==
    [called |-> TRUE, by |-> by, nargs |-> nargs, at |-> now, sec |-> sec, eps |-> eps,
     nv |-> NewValue(now, sec, eps)]
NoSet == [called |-> FALSE, by |-> "none", nargs |-> 0, at |-> ZeroTS, sec |-> 0, eps |-> 0,
          nv |-> [it_value |-> ZeroTS, it_interval |-> ZeroTS, loops |-> 0]]

\* ---- results handed back to the caller
\* op: the entry point; h: the object; rc: the C return value (for the Lua
\* methods the number pushed, for create the number of results); got: *got
\* after the call; data: the bytes stored in the caller's buffer; val: the
\* counter value the kernel delivered; kcalls: kernel calls the call made;
\* count: the size asked of tfd_read
Ret(op, h, rc, got, data, val, kcalls) ==
    [op |-> op, h |-> h, rc |-> rc, got |-> got, data |-> data, val |-> val,
     kcalls |-> kcalls, count |-> 0]
NoRet  == Ret("none", 0, 0, 0, <<>>, 0, 0)
RdIdle == [pc |-> "idle", h |-> 0, count |-> 0, got |-> 0, eintr |-> 0]

NoObj == [st |-> "none", class |-> FALSE, sock |-> SOCKET_INVALID]

Init ==
    /\ now \in {TS(1, n) : n \in InitNsec}
    /\ un = [h \in Handles |-> NoObj]
    /\ reach = [h \in Handles |-> FALSE]
    /\ freed = {}
    /\ tfd = [fd \in FdNums |-> ClosedTfd]
    /\ kcnt = [created |-> 0, released |-> 0, ebadf |-> 0]
    /\ rd = RdIdle
    /\ ret = NoRet
    /\ lastSet = [fd \in FdNums |-> NoSet]

\* the Lua state is between C calls
LuaIdle == rd.pc = "idle"
\* h is a timerfd{client} object the program can still call methods on
Usable(h) == un[h].st = "obj" /\ un[h].class /\ reach[h] /\ h \notin freed

\* ---- global_create
\* itv defaults to eps when the second argument is missing
\* a missing second argument read as zero
ItvArg_zero(args) == IF Len(args) >= 2 THEN args[2] ELSE 0
ItvArg(args) == IF Len(args) >= 2 THEN args[2] ELSE args[1]

\* the userdata given the timer class before timerfd_create is known to have
\* succeeded
NoHandle_classed(garbage) == [st |-> "obj", class |-> TRUE, sock |-> garbage]
\* the userdata a failed create leaves behind: allocated, never given the
\* class, its sock field never written
NoHandle(garbage) == [st |-> "obj", class |-> FALSE, sock |-> garbage]

\* create arming the timer whatever the delay
ArmOnCreate_always(eps) == TRUE
\* the test that guards the arming in create
ArmOnCreate(eps) == eps > 0

global_create(h, args, sock, garbage) ==
    LET eps == args[1]
        itv == ItvArg(args)
    IN
    /\ LuaIdle
    /\ un[h].st = "none"
    /\ \A g \in Handles : g < h => un[g].st # "none"
    /\ sock \in timerfd_create_results
    /\ IF sock < 0
       THEN \* nil, message, errno; the userdata stays without class and unreferenced
            /\ un' = [un EXCEPT ![h] = NoHandle(garbage)]
            /\ reach' = [reach EXCEPT ![h] = FALSE]
            /\ ret' = Ret("create", h, 3, EMFILE, <<>>, 0, 1)
            /\ UNCHANGED <<tfd, kcnt, lastSet>>
       ELSE /\ un' = [un EXCEPT ![h] = [st |-> "obj", class |-> TRUE, sock |-> sock]]
            /\ reach' = [reach EXCEPT ![h] = TRUE]
            /\ kcnt' = [kcnt EXCEPT !.created = @ + 1]
            /\ LET t0 == [tfd EXCEPT ![sock] = FreshTfd]
               IN  IF ArmOnCreate(eps)
                   THEN /\ tfd' = tfd_set_timeout(t0, sock, eps, itv)
                        /\ lastSet' = [lastSet EXCEPT ![sock] = SetRecord("create", Len(args), eps, itv)]
                        /\ ret' = Ret("create", h, 1, 0, <<>>, 0, 2)
                   ELSE /\ tfd' = t0
                        /\ lastSet' = [lastSet EXCEPT ![sock] = NoSet]
                        /\ ret' = Ret("create", h, 1, 0, <<>>, 0, 1)
    /\ UNCHANGED <<now, freed, rd>>

\* ---- meth_settimeout
\* settimeout without the test for a closed object
meth_settimeout_nocheck(h, args) ==
    /\ LuaIdle
    /\ Usable(h)
    /\ tfd' = tfd_set_timeout(tfd, un[h].sock, args[1], ItvArg(args))
    /\ lastSet' = lastSet
    /\ ret' = Ret("settimeout", h, 0, 0, <<>>, 0, 1)
    /\ UNCHANGED <<now, un, reach, freed, kcnt, rd>>
meth_settimeout(h, args) ==
    /\ LuaIdle
    /\ Usable(h)
    /\ IF un[h].sock = SOCKET_INVALID
       THEN /\ ret' = Ret("settimeout", h, 0, 0, <<>>, 0, 0)
            /\ UNCHANGED <<tfd, lastSet>>
       ELSE LET eps == args[1]
                itv == ItvArg(args)
            IN  /\ tfd' = tfd_set_timeout(tfd, un[h].sock, eps, itv)
                /\ lastSet' = [lastSet EXCEPT ![un[h].sock] = SetRecord("settimeout", Len(args), eps, itv)]
                /\ ret' = Ret("settimeout", h, 0, 0, <<>>, 0, 1)
    /\ UNCHANGED <<now, un, reach, freed, kcnt, rd>>

\* ---- close(2) and socket_destroy
sys_close(fd) ==
    IF IsOpen(fd)
    THEN /\ tfd' = [tfd EXCEPT ![fd] = ClosedTfd]
         /\ kcnt' = [kcnt EXCEPT !.released = @ + 1]
    ELSE /\ tfd' = tfd
         /\ kcnt' = [kcnt EXCEPT !.ebadf = @ + 1]

\* socket_destroy(&un->sock): close the descriptor if it is valid, then
\* invalidate it
socket_destroy(h) ==
    IF un[h].sock # SOCKET_INVALID
    THEN /\ sys_close(un[h].sock)
         /\ un' = [un EXCEPT ![h].sock = SOCKET_INVALID]
    ELSE UNCHANGED <<un, tfd, kcnt>>

\* ---- meth_close, reached as obj:close() and as the __gc metamethod
\* the method table without the finalizer entry
timerfd_methods_nogc == {"__tostring", "close", "getfd", "receive", "settimeout"}
timerfd_methods == {"__gc", "__tostring", "close", "getfd", "receive", "settimeout"}

\* a close that reports success without destroying the socket
meth_close_nodestroy(h, via) ==
    /\ UNCHANGED <<un, tfd, kcnt>>
    /\ ret' = Ret(via, h, 1, 0, <<>>, 0, 0)
meth_close(h, via) ==
    /\ socket_destroy(h)
    /\ ret' = Ret(via, h, 1, 0, <<>>, 0, IF un[h].sock # SOCKET_INVALID THEN 1 ELSE 0)

Close(h) ==
    /\ LuaIdle
    /\ Usable(h)
    /\ "close" \in timerfd_methods
    /\ meth_close(h, "close")
    /\ UNCHANGED <<now, reach, freed, rd, lastSet>>

\* the program drops its last reference to the object
Abandon(h) ==
    /\ LuaIdle
    /\ Usable(h)
    /\ reach' = [reach EXCEPT ![h] = FALSE]
    /\ UNCHANGED <<now, un, freed, tfd, kcnt, rd, ret, lastSet>>

\* the collector frees an unreachable userdata, running __gc if its
\* metatable (set by auxiliar_setclass) has one
Collect(h) ==
    /\ LuaIdle
    /\ un[h].st = "obj"
    /\ ~reach[h]
    /\ h \notin freed
    /\ freed' = freed \cup {h}
    /\ IF un[h].class /\ "__gc" \in timerfd_methods
       THEN meth_close(h, "__gc")
       ELSE UNCHANGED <<un, tfd, kcnt, ret>>
    /\ UNCHANGED <<now, reach, rd, lastSet>>

\* ---- tfd_read
\* byte i (1-based) of the uint64_t v as it lies in memory (little-endian)
ByteOf(v, i) ==
    IF i = 1 THEN v % 256
    ELSE IF i = 2 THEN (v \div 256) % 256
    ELSE IF i = 3 THEN (v \div 65536) % 256
    ELSE IF i = 4 THEN (v \div 16777216) % 256
    ELSE 0
BytesOf(v, n) == [i \in 1..n |-> ByteOf(v, i)]

\* a full-width read taken through the scratch value too, and never copied out
ReadResult_scratchOnly(count, got0, len, errno, v) ==
    IF len < 0
    THEN [rc |-> errno, got |-> got0, data |-> <<>>]
    ELSE [rc |-> IO_DONE, got |-> len,
          data |-> BytesOf(v, IF count >= SIZEOF_V THEN 0 ELSE count)]
\* what tfd_read returns once read(2) gave len (and errno): the return value,
\* *got, and the bytes now in the caller's buffer
ReadResult(count, got0, len, errno, v) ==
    IF len < 0
    THEN [rc |-> errno, got |-> got0, data |-> <<>>]
    ELSE [rc |-> IO_DONE, got |-> len,
          data |-> BytesOf(v, IF count >= SIZEOF_V THEN SIZEOF_V ELSE count)]

\* entry: the closed test; otherwise into the do-while
tfd_read(h, count, got0) ==
    /\ LuaIdle
    /\ Usable(h)
    /\ IF un[h].sock = SOCKET_INVALID
       THEN /\ ret' = Ret("read", h, IO_CLOSED, got0, <<>>, 0, 0)
            /\ rd' = rd
       ELSE /\ ret' = NoRet
            /\ rd' = [pc |-> "loop", h |-> h, count |-> count, got |-> got0, eintr |-> 0]
    /\ UNCHANGED <<now, un, reach, freed, tfd, kcnt, lastSet>>

\* the interrupted read(2) ending the loop, errno handed to the caller
tfd_read_eintr_surfaced ==
    /\ rd.pc = "loop"
    /\ rd.eintr < MaxEintr
    /\ ret' = [Ret("read", rd.h, EINTR, rd.got, <<>>, 0, rd.eintr + 1)
                  EXCEPT !.count = rd.count]
    /\ rd' = RdIdle
    /\ UNCHANGED <<now, un, reach, freed, tfd, kcnt, lastSet>>
\* one read(2) of the do-while, interrupted by a signal: errno = EINTR, again
tfd_read_eintr ==
    /\ rd.pc = "loop"
    /\ rd.eintr < MaxEintr
    /\ rd' = [rd EXCEPT !.eintr = @ + 1]
    /\ UNCHANGED <<now, un, reach, freed, tfd, kcnt, ret, lastSet>>

\* a read(2) that fails taken as the end of the timer: the descriptor is
\* closed and invalidated
tfd_read_done_closeOnError ==
    /\ rd.pc = "loop"
    /\ LET fd == un[rd.h].sock
           v  == tfd[fd].ticks
           r  == IF v > 0 THEN ReadResult(rd.count, rd.got, SIZEOF_V, 0, v)
                 ELSE ReadResult(rd.count, rd.got, -1, EAGAIN, 0)
       IN  /\ IF v > 0
              THEN /\ tfd' = [tfd EXCEPT ![fd].ticks = 0, ![fd].taken = @ + v]
                   /\ UNCHANGED <<un, kcnt>>
              ELSE socket_destroy(rd.h)
           /\ ret' = [Ret("read", rd.h, r.rc, r.got, r.data, v, rd.eintr + 1)
                         EXCEPT !.count = rd.count]
    /\ rd' = RdIdle
    /\ UNCHANGED <<now, reach, freed, lastSet>>
\* the short read asking the kernel for count bytes only: read(2) on a timerfd
\* refuses a buffer below 8 bytes with EINVAL (22) and keeps the counter
tfd_read_done_shortcount ==
    /\ rd.pc = "loop"
    /\ LET fd == un[rd.h].sock
           v  == tfd[fd].ticks
           r  == IF rd.count < SIZEOF_V THEN ReadResult(rd.count, rd.got, -1, 22, 0)
                 ELSE IF v > 0 THEN ReadResult(rd.count, rd.got, SIZEOF_V, 0, v)
                 ELSE ReadResult(rd.count, rd.got, -1, EAGAIN, 0)
       IN  /\ tfd' = IF rd.count < SIZEOF_V THEN tfd
                     ELSE [tfd EXCEPT ![fd].ticks = 0, ![fd].taken = @ + v]
           /\ ret' = [Ret("read", rd.h, r.rc, r.got, r.data, v, rd.eintr + 1)
                         EXCEPT !.count = rd.count]
    /\ rd' = RdIdle
    /\ UNCHANGED <<now, un, reach, freed, kcnt, lastSet>>
\* one read(2) of the do-while that is not interrupted: the counter if it is
\* non-zero (and the counter is reset), else -1 with EAGAIN (TFD_NONBLOCK)
tfd_read_done ==
    /\ rd.pc = "loop"
    /\ LET fd == un[rd.h].sock
           v  == tfd[fd].ticks
           r  == IF v > 0 THEN ReadResult(rd.count, rd.got, SIZEOF_V, 0, v)
                 ELSE ReadResult(rd.count, rd.got, -1, EAGAIN, 0)
       IN  /\ tfd' = [tfd EXCEPT ![fd].ticks = 0, ![fd].taken = @ + v]
           /\ ret' = [Ret("read", rd.h, r.rc, r.got, r.data, v, rd.eintr + 1)
                         EXCEPT !.count = rd.count]
    /\ rd' = RdIdle
    /\ UNCHANGED <<now, un, reach, freed, kcnt, lastSet>>

\* ---- the clock and the kernel timers
Due(fd) == tfd[fd].open /\ tfd[fd].armed /\ TsLe(tfd[fd].value, now)

Tick ==
    /\ now.tv_sec < MaxSec
    /\ \A fd \in FdNums : ~Due(fd)
    /\ now' = AddMs(now, TickMs)
    /\ UNCHANGED <<un, reach, freed, tfd, kcnt, rd, ret, lastSet>>

\* the expirations of a due timer up to now: one for a one-shot timer, which
\* is then disarmed; for a periodic timer every period that has elapsed, and
\* the deadline moves past now
IntervalMs(i) == i.tv_sec * MSEC_PER_SEC + (i.tv_nsec \div NSEC_PER_MSEC)
WholeMs(i) == i.tv_nsec % NSEC_PER_MSEC = 0
Expire(fd) ==
    /\ Due(fd)
    /\ LET t == tfd[fd]
       IN  IF t.interval = ZeroTS
           THEN tfd' = [tfd EXCEPT ![fd].ticks = @ + 1, ![fd].fired = @ + 1,
                                   ![fd].armed = FALSE]
           ELSE LET n == IF WholeMs(t.interval)
                         THEN (DiffMs(now, t.value) \div IntervalMs(t.interval)) + 1
                         ELSE 1
                IN  tfd' = [tfd EXCEPT ![fd].ticks = @ + n, ![fd].fired = @ + n,
                                       ![fd].value = AddMs(@, n * IntervalMs(t.interval))]
    /\ UNCHANGED <<now, un, reach, freed, kcnt, rd, ret, lastSet>>

\* the calls the Lua program makes, on the objects H with the inputs given,
\* and the collector
LuaStep(H, CA, SA, RC, GG) ==
    \/ \E h \in H, args \in CA, sock \in {-1} \cup FdNums, g \in SockGarbage :
          global_create(h, args, sock, g)
    \/ \E h \in H, args \in SA : meth_settimeout(h, args)
    \/ \E h \in H : Close(h)
    \/ \E h \in H : Abandon(h)
    \/ \E h \in H : Collect(h)
    \/ \E h \in H, count \in RC, got0 \in GG : tfd_read(h, count, got0)
    \/ tfd_read_eintr
    \/ tfd_read_done

\* one timer object with the full inputs, the clock running
Next ==
    \/ LuaStep({1}, CreateArgs, ArgLists, ReadCounts, GotGarbage)
    \/ Tick
    \/ \E fd \in FdNums : Expire(fd)
Spec == Init /\ [][Next]_vars
\* the clock always advances and a timer whose deadline is reached expires
FairSpec == Spec /\ WF_vars(Tick) /\ \A fd \in FdNums : WF_vars(Expire(fd))
\* signals stop arriving: a read(2) inside tfd_read is eventually not interrupted
ReadFairSpec == Spec /\ WF_vars(tfd_read_done)

\* every object, sharing the descriptor table, within one clock reading:
\* timers armed with a delay below one millisecond expire at once, the
\* others stay pending
LifeArgs == {<<0>>, <<1000>>}
LifeNext ==
    \/ LuaStep(Handles, LifeArgs, LifeArgs, {SIZEOF_V}, {0})
    \/ \E fd \in FdNums : Expire(fd)
LifeSpec == Init /\ [][LifeNext]_vars

\* ---- tfd_set_timeout on its own: one live, unarmed object (as create
\* leaves it for a delay of zero) at any clock reading, armed once
ArithNow  == {TS(sec, n) : sec \in {1, 2},
                           n \in {0, 1, 999999, 1000000, 499999999, 500000000,
                                  999000000, 999999999}}
ArithUs   == {0, 1, 999, 1000, 1001, 500000, 999000, 999999, 1000000, 1999000, 1999999}
ArithArgs == {<<d>> : d \in ArithUs} \cup {<<d, i>> : d \in ArithUs, i \in ArithUs}
ArithInit ==
    /\ now \in ArithNow
    /\ un = [h \in Handles |-> IF h = 1
                THEN [st |-> "obj", class |-> TRUE, sock |-> FIRST_FD] ELSE NoObj]
    /\ reach = [h \in Handles |-> h = 1]
    /\ freed = {}
    /\ tfd = [fd \in FdNums |-> IF fd = FIRST_FD THEN FreshTfd ELSE ClosedTfd]
    /\ kcnt = [created |-> 1, released |-> 0, ebadf |-> 0]
    /\ rd = RdIdle
    /\ ret = Ret("create", 1, 1, 0, <<>>, 0, 1)
    /\ lastSet = [fd \in FdNums |-> NoSet]
ArithNext == \E args \in ArithArgs : lastSet[FIRST_FD] = NoSet /\ meth_settimeout(1, args)
ArithSpec == ArithInit /\ [][ArithNext]_vars

(***************************************************************************)
(* Claims                                                                  *)
(***************************************************************************)
OpenFds == {fd \in FdNums : tfd[fd].open}
\* the objects whose methods (or finalizer) can still run
Owners(fd) == {h \in Handles : un[h].st = "obj" /\ un[h].class /\ h \notin freed
                               /\ un[h].sock = fd}

\* C1: every close, explicit or through __gc, on a live or an already closed
\* handle, returns 1 and leaves the descriptor equal to SOCKET_INVALID.
C1_CloseIdempotent ==
    ret.op \in {"close", "__gc"} =>
        /\ ret.rc = 1
        /\ un[ret.h].sock = SOCKET_INVALID
\* close was called on a handle that was already closed
C1_Witness ==
    /\ ret.op = "close"
    /\ ret.kcalls = 0
    /\ ret.rc = 1
    /\ kcnt.released >= 1

\* C2: every descriptor timerfd_create returned is released exactly once:
\* no close(2) ever hits a descriptor that is not open, every open descriptor
\* belongs to exactly one object that can still be closed or finalized, no
\* object holds a descriptor that was released, and creations equal releases
\* plus the descriptors still open (so an object the collector has freed
\* has had its descriptor released).
C2_ReleasedExactlyOnce ==
    /\ kcnt.ebadf = 0
    /\ kcnt.created = kcnt.released + Cardinality(OpenFds)
    /\ \A fd \in OpenFds : Cardinality(Owners(fd)) = 1
    /\ \A h \in Handles :
          (un[h].st = "obj" /\ un[h].class /\ un[h].sock # SOCKET_INVALID)
              => IsOpen(un[h].sock)
    /\ \A h \in freed : un[h].class => un[h].sock = SOCKET_INVALID
\* an abandoned handle was released by the finalizer, after another handle
\* had been closed explicitly and its descriptor number reused
C2_Witness ==
    /\ ret.op = "__gc"
    /\ ret.kcalls = 1
    /\ kcnt.created = 2
    /\ kcnt.released = 2
    /\ \E h \in freed : un[h].class
    /\ \E h \in Handles : h \notin freed /\ un[h].class /\ un[h].sock = SOCKET_INVALID

\* C3: a read on a handle whose descriptor is SOCKET_INVALID returns
\* IO_CLOSED, reports zero bytes produced (*got = 0, nothing stored), whatever
\* the size asked, and makes no read(2) call.
C3_ClosedReadZeroBytes ==
    (ret.op = "read" /\ un[ret.h].sock = SOCKET_INVALID) =>
        /\ ret.rc = IO_CLOSED
        /\ ret.got = 0
        /\ ret.data = <<>>
        /\ ret.kcalls = 0

\* C4: settimeout on a closed handle makes no kernel call and changes
\* neither the object nor any kernel timer (deadline, interval, pending
\* count) nor the descriptor table.
C4_ArmClosedNoop ==
    [][\A h \in Handles, args \in ArgLists :
          (un[h].sock = SOCKET_INVALID /\ meth_settimeout(h, args)) =>
              /\ ret'.kcalls = 0
              /\ UNCHANGED <<un, tfd, kcnt, lastSet>>]_vars
\* settimeout returned from a closed handle whose timer had been programmed
C4_Witness ==
    /\ ret.op = "settimeout"
    /\ un[ret.h].sock = SOCKET_INVALID
    /\ kcnt.released >= 1
    /\ \E fd \in FdNums : lastSet[fd].called

\* C5: a read on a live handle with no expiration pending is not an error:
\* it returns IO_DONE with zero bytes rather than an error code.
C5_WouldBlockNotError ==
    (ret.op = "read" /\ ret.rc # IO_CLOSED /\ ret.val = 0) =>
        /\ ret.rc = IO_DONE
        /\ ret.got = 0

\* C6: a successful read of fewer than SIZEOF_V bytes reports exactly the
\* size asked as the bytes produced, and the bytes stored are the first
\* (low-order) bytes of the counter.
C6_TruncatedReadCount ==
    (ret.op = "read" /\ ret.rc = IO_DONE /\ ret.count < SIZEOF_V) =>
        /\ ret.got = ret.count
        /\ ret.data = BytesOf(ret.val, ret.count)

\* ---- how a descriptor's timer was last programmed
Programmed(fd) == tfd[fd].open /\ lastSet[fd].called
\* the timespec of ms milliseconds
MsTS(ms) == TS(ms \div MSEC_PER_SEC, (ms % MSEC_PER_SEC) * NSEC_PER_MSEC)
Rearm == \E h \in Handles, args \in ArgLists : meth_settimeout(h, args)

\* C7: a timer armed with interval 0 expires exactly once: it stays armed
\* until its one expiration, is disarmed by it, and once that expiration has
\* been read the descriptor is never readable again (until re-armed).
C7_OneShot ==
    /\ [](\A fd \in FdNums : (Programmed(fd) /\ lastSet[fd].eps = 0) =>
             /\ tfd[fd].interval = ZeroTS
             /\ tfd[fd].fired <= 1
             /\ tfd[fd].ticks <= tfd[fd].fired
             /\ tfd[fd].armed <=> tfd[fd].fired = 0)
    /\ [][\A fd \in FdNums :
             (Programmed(fd) /\ lastSet[fd].eps = 0 /\ tfd[fd].fired = 1
                 /\ tfd[fd].ticks = 0 /\ ~Rearm)
                 => tfd'[fd].ticks = 0]_vars
\* the one expiration was read, a later read found nothing, a second went by
C7_Witness ==
    \E fd \in FdNums :
        /\ Programmed(fd) /\ lastSet[fd].eps = 0 /\ lastSet[fd].nargs = 2
        /\ tfd[fd].fired = 1 /\ tfd[fd].ticks = 0
        /\ ret.op = "read" /\ ret.rc = EAGAIN
        /\ DiffMs(now, tfd[fd].value) >= MSEC_PER_SEC

\* C8 (as claimed): a timer armed with any interval > 0, intervals below one
\* millisecond included, is periodic: it is still armed after it has expired.
C8_PositiveIntervalPeriodic ==
    \A fd \in FdNums :
        (Programmed(fd) /\ lastSet[fd].eps > 0 /\ tfd[fd].fired >= 1) => tfd[fd].armed
\* C8 (amended): a timer armed with an interval of at least one millisecond
\* (floor(interval * 1000) >= 1) is periodic: it repeats every
\* floor(interval * 1000) ms, it stays armed whatever expires or is read,
\* once it has expired its next deadline is never more than one interval
\* ahead of the clock, and after each drain a further expiration becomes
\* pending (while the clock can still reach the deadline) unless the handle
\* is closed or re-armed first.
PeriodicMs(fd) == Programmed(fd) /\ MsOf(lastSet[fd].eps) >= 1
C8_MsIntervalPeriodic ==
    /\ [](\A fd \in FdNums :
             PeriodicMs(fd) =>
                 /\ tfd[fd].interval = MsTS(MsOf(lastSet[fd].eps))
                 /\ tfd[fd].armed
                 /\ tfd[fd].fired >= 1 =>
                       TsLe(tfd[fd].value, AddMs(now, MsOf(lastSet[fd].eps))))
    /\ \A fd \in FdNums :
          (PeriodicMs(fd) /\ tfd[fd].fired >= 1 /\ tfd[fd].ticks = 0
              /\ tfd[fd].value.tv_sec < MaxSec)
          ~> (tfd[fd].ticks >= 1 \/ ~PeriodicMs(fd) \/ tfd[fd].fired = 0)
\* a periodic timer has an expiration pending again after an earlier one was read
C8_Witness ==
    \E fd \in FdNums :
        /\ PeriodicMs(fd)
        /\ tfd[fd].ticks >= 1
        /\ tfd[fd].fired > tfd[fd].ticks
        /\ ret.op = "read" /\ ret.rc = IO_DONE

\* C9 (as claimed): with the interval argument left out, in create and in
\* settimeout, the timer is programmed with a zero interval and expires at
\* most once.
C9_OmittedIntervalOneShot ==
    \A fd \in FdNums :
        (Programmed(fd) /\ lastSet[fd].nargs = 1) =>
            /\ tfd[fd].interval = ZeroTS
            /\ tfd[fd].fired <= 1
\* C9 (amended): with the interval argument left out, in create and in
\* settimeout, the interval is the delay: the timer repeats every
\* floor(delay * 1000) ms, and is one-shot only when that is zero.
C9_OmittedIntervalIsDelay ==
    \A fd \in FdNums :
        (Programmed(fd) /\ lastSet[fd].nargs = 1) =>
            /\ lastSet[fd].eps = lastSet[fd].sec
            /\ tfd[fd].interval = MsTS(MsOf(lastSet[fd].sec))
            /\ MsOf(lastSet[fd].sec) = 0 => tfd[fd].fired <= 1
            /\ MsOf(lastSet[fd].sec) >= 1 => tfd[fd].armed
\* settimeout(delay) alone made the timer expire more than once
C9_Witness ==
    \E fd \in FdNums :
        /\ Programmed(fd) /\ lastSet[fd].nargs = 1 /\ lastSet[fd].by = "settimeout"
        /\ lastSet[fd].sec > 0
        /\ tfd[fd].fired >= 2

\* C10: for a clock reading with nanoseconds in [0, 10^9) and non-negative
\* delay and interval, the deadline has its nanoseconds in [0, 10^9) and is
\* exactly the clock reading plus floor(delay * 1000) milliseconds.
C10_DeadlineExact ==
    \A fd \in FdNums :
        lastSet[fd].called =>
            LET at == lastSet[fd].at
                dl == lastSet[fd].nv.it_value
            IN  /\ dl.tv_nsec >= 0
                /\ dl.tv_nsec < NSEC_PER_SEC
                /\ (dl.tv_sec - at.tv_sec) * NSEC_PER_SEC + (dl.tv_nsec - at.tv_nsec)
                      = MsOf(lastSet[fd].sec) * NSEC_PER_MSEC
                /\ tfd[fd].open => tfd[fd].value = dl \/ tfd[fd].fired >= 1
\* the nanoseconds carried into the seconds, with an interval given
C10_Witness ==
    \E fd \in FdNums :
        /\ lastSet[fd].called
        /\ lastSet[fd].at.tv_nsec = 999999999
        /\ lastSet[fd].sec = 1999999
        /\ lastSet[fd].eps = 1999999
        /\ lastSet[fd].nv.it_value = TS(lastSet[fd].at.tv_sec + 2, 998999999)

\* C11: after settimeout(0, 0) on a live timer, whatever it was programmed
\* with before, the timer is cancelled: it is disarmed and no expiration
\* becomes pending until it is armed again.
C11_ZeroDelayCancels ==
    \A fd \in FdNums :
        (Programmed(fd) /\ lastSet[fd].by = "settimeout"
            /\ lastSet[fd].sec = 0 /\ lastSet[fd].eps = 0) =>
            /\ tfd[fd].fired = 0
            /\ tfd[fd].ticks = 0

\* C12: create arms the new timer exactly when the delay is positive. With a
\* delay <= 0 the handle is live and disarmed, whatever the interval, and
\* nothing becomes pending until settimeout is called; with a delay > 0 the
\* timer is armed, before create returns, with the deadline now +
\* floor(delay * 1000) ms and the interval passed.
C12_CreateArmsIffPositive ==
    /\ [](\A fd \in FdNums :
             (tfd[fd].open /\ ~lastSet[fd].called) =>
                 /\ ~tfd[fd].armed
                 /\ tfd[fd].ticks = 0
                 /\ tfd[fd].fired = 0)
    /\ [][\A h \in Handles, sock \in FdNums :
             (un[h].st = "none" /\ un'[h].st = "obj" /\ un'[h].sock = sock) =>
                \A args \in CreateArgs, g \in SockGarbage :
                    global_create(h, args, sock, g) =>
                       /\ un'[h].class /\ reach'[h] /\ tfd'[sock].open
                       /\ tfd'[sock].armed <=> args[1] > 0
                       /\ lastSet'[sock].called <=> args[1] > 0
                       /\ args[1] > 0 =>
                             /\ tfd'[sock].value = AddMs(now, MsOf(args[1]))
                             /\ Len(args) = 2 =>
                                   tfd'[sock].interval = MsTS(MsOf(args[2]))
                             /\ ret'.kcalls = 2
                       /\ args[1] <= 0 =>
                             /\ tfd'[sock].ticks = 0
                             /\ ret'.kcalls = 1]_vars
\* a timer created with a non-positive delay is still disarmed, with nothing
\* pending, after the clock has advanced
C12_Witness ==
    /\ ret.op = "create" /\ ret.rc = 1 /\ ret.kcalls = 1
    /\ now.tv_sec >= 2
    /\ \E fd \in FdNums :
          /\ tfd[fd].open
          /\ ~lastSet[fd].called
          /\ ~tfd[fd].armed
          /\ tfd[fd].ticks = 0

\* C13: when timerfd_create fails, create returns three results (nil, the
\* message, errno), the userdata it allocated is not of the timer class and
\* is not referenced, no descriptor is opened or programmed, and collecting
\* that userdata releases nothing.
C13_CreateFailure ==
    /\ []((ret.op = "create" /\ ret.rc = 3) =>
             /\ ret.got = EMFILE
             /\ ~un[ret.h].class
             /\ ~Usable(ret.h))
    /\ [](kcnt.ebadf = 0)
    /\ [](\A fd \in OpenFds : Cardinality(Owners(fd)) = 1)
    /\ [][\A h \in Handles :
             (un[h].st = "none" /\ un'[h].st = "obj" /\ ret'.rc = 3) =>
                /\ ret'.op = "create"
                /\ ~un'[h].class
                /\ ~reach'[h]
                /\ UNCHANGED <<tfd, kcnt, lastSet>>]_vars
    /\ [][\A h \in Handles :
             (un[h].st = "obj" /\ ~un[h].class /\ h \notin freed /\ h \in freed') =>
                UNCHANGED <<tfd, kcnt, un>>]_vars
\* the userdata of a failed create, whose sock field happened to hold the
\* number of a descriptor another timer owns, was collected and that timer
\* is still open
C13_Witness ==
    \E h \in Handles :
        /\ h \in freed
        /\ ~un[h].class
        /\ un[h].sock = FIRST_FD
        /\ tfd[FIRST_FD].open
        /\ Owners(FIRST_FD) # {}

\* the uint64_t whose bytes, in memory order, are data
RECURSIVE U64Of(_)
U64Of(data) ==
    IF data = <<>> THEN 0
    ELSE data[1] + 256 * U64Of(Tail(data))
\* the step on which tfd_read leaves its do-while
ReadReturns == rd.pc = "loop" /\ rd'.pc = "idle"

\* C14: a successful read of SIZEOF_V bytes stores the number of expirations
\* since the previous successful read (or since the timer was programmed) and
\* resets the pending count, so a read with no expiration since reports EAGAIN;
\* every expiration is delivered by exactly one read: the expirations so far
\* are those pending plus those already delivered.
C14_FullReadDrains ==
    /\ [](\A fd \in OpenFds :
             /\ tfd[fd].fired = tfd[fd].ticks + tfd[fd].taken
             /\ tfd[fd].ticks >= 0)
    /\ [][(ReadReturns /\ rd.count >= SIZEOF_V) =>
             LET fd == un[rd.h].sock
                 since == tfd[fd].fired - tfd[fd].taken
             IN  /\ since > 0 =>
                       /\ ret'.rc = IO_DONE
                       /\ Len(ret'.data) = SIZEOF_V
                       /\ U64Of(ret'.data) = since
                       /\ tfd'[fd].ticks = 0
                       /\ tfd'[fd].taken = tfd[fd].fired
                 /\ since = 0 =>
                       /\ ret'.rc = EAGAIN
                       /\ ret'.data = <<>>
                       /\ tfd' = tfd]_vars
\* a full-width read returned several expirations at once, after an earlier
\* read had already returned some
C14_Witness ==
    /\ ret.op = "read" /\ ret.rc = IO_DONE /\ ret.count = SIZEOF_V
    /\ U64Of(ret.data) >= 2
    /\ \E fd \in OpenFds : tfd[fd].taken > U64Of(ret.data)

\* C15: tfd_read never returns EINTR. A read(2) that was interrupted is
\* issued again with nothing changed; the call returns what its first
\* uninterrupted read(2) gives, the counter or EAGAIN, whatever the number of
\* interruptions before it; and once interruptions stop the call returns.
C15_EintrRetried ==
    /\ [](ret.op = "read" => ret.rc \in {IO_DONE, EAGAIN, IO_CLOSED})
    /\ [][(rd.pc = "loop" /\ rd'.pc = "loop" /\ rd' # rd) =>
             /\ rd' = [rd EXCEPT !.eintr = rd.eintr + 1]
             /\ UNCHANGED <<tfd, ret, un, kcnt, lastSet>>]_vars
    /\ [][ReadReturns =>
             LET v == tfd[un[rd.h].sock].ticks
             IN  /\ ret'.op = "read"
                 /\ ret'.kcalls = rd.eintr + 1
                 /\ ret'.val = v
                 /\ ret'.rc = IF v > 0 THEN IO_DONE ELSE EAGAIN
                 /\ ret'.data = ReadResult(rd.count, rd.got,
                                           IF v > 0 THEN SIZEOF_V ELSE -1, EAGAIN, v).data]_vars
    /\ (rd.pc = "loop") ~> (rd.pc = "idle" /\ ret.op = "read")
\* a read that was interrupted returned the counter
C15_Witness ==
    /\ ret.op = "read"
    /\ ret.kcalls >= 2
    /\ ret.rc = IO_DONE
    /\ ret.val >= 1
    /\ rd.pc = "idle"

\* C16: for every non-negative interval the loop that normalizes the interval
\* in tfd_set_timeout runs zero times: the interval handed to the kernel is
\* (ms div 1000, (ms mod 1000) * 10^6) for ms = floor(interval * 1000), its
\* nanoseconds are in [0, 10^9), and the deadline is the one computed for
\* any other interval.
C16_IntervalLoopDead ==
    \A fd \in FdNums :
        lastSet[fd].called =>
            LET nv == lastSet[fd].nv
                ms == MsOf(lastSet[fd].eps)
            IN  /\ nv.loops = 0
                /\ nv.it_interval = MsTS(ms)
                /\ nv.it_interval.tv_nsec >= 0
                /\ nv.it_interval.tv_nsec < NSEC_PER_SEC
                /\ \A i \in ArithUs :
                      NewValue(lastSet[fd].at, lastSet[fd].sec, i).it_value = nv.it_value
                /\ tfd[fd].open => tfd[fd].interval = MsTS(ms)
\* an interval just below two seconds, programmed as (1, 999000000)
C16_Witness ==
    \E fd \in FdNums :
        /\ lastSet[fd].called
        /\ lastSet[fd].eps = 1999999
        /\ lastSet[fd].sec = 1000
        /\ lastSet[fd].nv.loops = 0
        /\ lastSet[fd].nv.it_interval = TS(1, 999000000)
        /\ tfd[fd].interval = TS(1, 999000000)

\* C17: a read of fewer than SIZEOF_V bytes that finds expirations pending
\* succeeds, stores the first count bytes of the counter and resets the whole
\* counter; a read that finds every expiration already delivered, by a
\* truncated read or a full one, returns EAGAIN and stores no byte.
C17_TruncatedReadDrains ==
    /\ [][(ReadReturns /\ rd.count < SIZEOF_V) =>
             LET fd == un[rd.h].sock
                 v  == tfd[fd].ticks
             IN  v > 0 =>
                    /\ ret'.rc = IO_DONE
                    /\ ret'.data = [i \in 1..rd.count |-> ByteOf(v, i)]
                    /\ tfd'[fd].ticks = 0
                    /\ tfd'[fd].taken = tfd[fd].fired]_vars
    /\ [][ReadReturns =>
             LET fd == un[rd.h].sock
             IN  tfd[fd].taken = tfd[fd].fired =>
                    /\ ret'.rc = EAGAIN
                    /\ ret'.data = <<>>
                    /\ ret'.val = 0]_vars
\* a read of 3 bytes returned part of a counter above 255 and left nothing
\* pending
C17_Witness ==
    /\ ret.op = "read" /\ ret.rc = IO_DONE /\ ret.count = 3
    /\ ret.val > 255
    /\ Len(ret.data) = 3
    /\ tfd[un[ret.h].sock].ticks = 0
    /\ tfd[un[ret.h].sock].taken = tfd[un[ret.h].sock].fired

\* what a step of tfd_read may change: of the kernel timers only the pending
\* count (and the count of what was delivered), which never grows
ReadFrame ==
    /\ UNCHANGED <<now, un, reach, freed, kcnt, lastSet>>
    /\ \A fd \in FdNums :
          /\ tfd'[fd].open = tfd[fd].open
          /\ tfd'[fd].armed = tfd[fd].armed
          /\ tfd'[fd].value = tfd[fd].value
          /\ tfd'[fd].interval = tfd[fd].interval
          /\ tfd'[fd].fired = tfd[fd].fired
          /\ tfd'[fd].ticks <= tfd[fd].ticks

\* C18: every step of a read, closed, would-block, interrupted or
\* successful, leaves the object's descriptor, the timer's deadline, its
\* interval and whether it is armed and open as they were; only the pending
\* count may change.
C18_ReadFrame ==
    /\ [][(rd.pc = "idle" /\ (rd'.pc = "loop" \/ ret'.op = "read")) =>
             \A h \in Handles, count \in ReadCounts, got0 \in GotGarbage :
                 tfd_read(h, count, got0) =>
                    /\ ReadFrame
                    /\ tfd' = tfd]_vars
    /\ [][(rd.pc = "loop" /\ tfd_read_eintr) => (ReadFrame /\ tfd' = tfd)]_vars
    /\ [][(rd.pc = "loop" /\ tfd_read_done) => ReadFrame]_vars
\* a periodic timer whose expirations were read is armed as before, on the
\* same descriptor
C18_Witness ==
    /\ ret.op = "read" /\ ret.rc = IO_DONE /\ rd.pc = "idle"
    /\ un[ret.h].sock = FIRST_FD
    /\ tfd[FIRST_FD].armed
    /\ tfd[FIRST_FD].interval = lastSet[FIRST_FD].nv.it_interval
    /\ tfd[FIRST_FD].interval # ZeroTS
    /\ tfd[FIRST_FD].ticks = 0

====
